---- MODULE Spec2Model ----
(***************************************************************************)
(* Model of the resume parsing engine of server/python/extract_pdf.py.     *)
(*                                                                         *)
(* A text is a sequence of tokens.  A token is a newline "\n", one extra   *)
(* blank " ", a punctuation mark (":", ",", ".", "-") or a word.  Two      *)
(* adjacent words are separated by exactly one blank of the text; ":", "," *)
(* and "." are attached to the word before them, and "-" stands between    *)
(* two blanks.  Offsets are counted in tokens, from 0 as in Python;        *)
(* Slice(t, a, b) is t[a:b].                                               *)
(* A regular expression of the source is modelled by an operator that      *)
(* computes its match on the token sequence: the alternatives in the       *)
(* source's order, greedy repetition, leftmost match; what the expression  *)
(* does inside a word (letters, digits, letter case) is a table over the   *)
(* vocabulary of the model.  Alternatives of the source that hold a        *)
(* non-ASCII letter or dash cannot occur in a text of the vocabulary and   *)
(* are left out of the tables.                                             *)
(***************************************************************************)
EXTENDS Integers, Sequences, FiniteSets, TLC

VARIABLES text, nlines, call

vars == <<text, nlines, call>>

NL == "\n"
SP == " "
COLON == ":"
COMMA == ","
DOT == "."
DASH == "-"

\* \s of the regular expressions
WS == {NL, SP}

\* str.lower() of a word, as re.IGNORECASE compares
LowerTable ==
  [ Experience |-> "experience", Education |-> "education", Skills |-> "skills",
    Summary |-> "summary", Work |-> "work", EXPERIENCE |-> "experience",
    Qualifications |-> "qualifications",
    Jane |-> "jane", Smith |-> "smith", Acme |-> "acme", Corp |-> "corp",
    Beta |-> "beta", Inc |-> "inc", Senior |-> "senior", Engineer |-> "engineer",
    ENGINEER |-> "engineer",
    Analyst |-> "analyst", January |-> "january", June |-> "june",
    December |-> "december", Present |-> "present", Built |-> "built",
    Analyzed |-> "analyzed", Master |-> "master", Science |-> "science",
    Computing |-> "computing", Tech |-> "tech", University |-> "university",
    Python |-> "python", Java |-> "java", Bachelor |-> "bachelor", Arts |-> "arts",
    College |-> "college", PRESENT |-> "present", Unknown |-> "unknown",
    Austin |-> "austin", TX |-> "tx", Santiago |-> "santiago", Chile |-> "chile",
    Region |-> "region", Metropolitana |-> "metropolitana" ]

Lower(w) == IF w \in DOMAIN LowerTable THEN LowerTable[w] ELSE w

\* str.isupper() of the first character of a word
IsUpperInitial(w) == w \in DOMAIN LowerTable

\* the words matching \d{4}, with int() of each
YearValue ==
  ("2010" :> 2010) @@ ("2012" :> 2012) @@ ("2015" :> 2015) @@ ("2017" :> 2017) @@
  ("2018" :> 2018) @@ ("2019" :> 2019) @@ ("1998" :> 1998)

IsDigits4(w) == w \in DOMAIN YearValue

\* the words that are neither letters only nor digits only: an e-mail
\* address, a telephone number, and the URLs with the labels of their hosts
EmailWords == {"john.doe@example.com"}

PhoneWords == {"555-123-4567"}

UrlHost ==
  ("https://janesmith.dev" :> <<"janesmith", "dev">>) @@
  ("https://linkedin.com/in/jane" :> <<"linkedin", "com">>) @@
  ("https://www.github.com/jane" :> <<"www", "github", "com">>) @@
  ("https://es.linkedin.com/in/jane" :> <<"es", "linkedin", "com">>)

ContactWords == EmailWords \cup PhoneWords \cup DOMAIN UrlHost

\* a word matching [A-Za-z]+
IsAlpha(w) ==
  w \notin WS \cup {COLON, COMMA, DOT, DASH} /\ ~IsDigits4(w) /\ w \notin ContactWords

----------------------------------------------------------------------------
(* Python sequence helpers *)

\* t[a:b]
Slice(t, a, b) ==
  LET stop == IF b > Len(t) THEN Len(t) ELSE b
  IN IF stop <= a THEN <<>> ELSE SubSeq(t, a + 1, stop)

RECURSIVE LStrip(_)
LStrip(t) == IF t # <<>> /\ Head(t) \in WS THEN LStrip(Tail(t)) ELSE t

RECURSIVE RStrip(_)
RStrip(t) ==
  IF t # <<>> /\ t[Len(t)] \in WS THEN RStrip(SubSeq(t, 1, Len(t) - 1)) ELSE t

\* str.strip()
Strip(t) == RStrip(LStrip(t))

\* str.split('\n'): the lines of t, at least one
RECURSIVE SplitLines(_)
SplitLines(t) ==
  IF \A i \in 1..Len(t) : t[i] # NL THEN <<t>>
  ELSE LET k == CHOOSE i \in 1..Len(t) : t[i] = NL /\ \A j \in 1..(i - 1) : t[j] # NL
       IN <<SubSeq(t, 1, k - 1)>> \o SplitLines(SubSeq(t, k + 1, Len(t)))

\* '\n'.join(ls)
RECURSIVE JoinLines(_)
JoinLines(ls) ==
  IF ls = <<>> THEN <<>>
  ELSE IF Len(ls) = 1 THEN ls[1]
  ELSE ls[1] \o <<NL>> \o JoinLines(Tail(ls))

\* the offset after the run of whitespace that starts at offset p
RECURSIVE SkipWS(_, _)
SkipWS(t, p) == IF p < Len(t) /\ t[p + 1] \in WS THEN SkipWS(t, p + 1) ELSE p

\* len() of a word
WordLength ==
  ("Experience" :> 10) @@ ("Education" :> 9) @@ ("Skills" :> 6) @@
  ("Summary" :> 7) @@ ("Work" :> 4) @@ ("EXPERIENCE" :> 10) @@
  ("Qualifications" :> 14) @@ ("Jane" :> 4) @@ ("Smith" :> 5) @@
  ("Acme" :> 4) @@ ("Corp" :> 4) @@ ("Beta" :> 4) @@ ("Inc" :> 3) @@
  ("Senior" :> 6) @@ ("Engineer" :> 8) @@ ("ENGINEER" :> 8) @@
  ("Analyst" :> 7) @@ ("January" :> 7) @@ ("June" :> 4) @@
  ("December" :> 8) @@ ("Present" :> 7) @@ ("Built" :> 5) @@
  ("Analyzed" :> 8) @@ ("Master" :> 6) @@ ("Science" :> 7) @@
  ("Computing" :> 9) @@ ("Tech" :> 4) @@ ("University" :> 10) @@
  ("Python" :> 6) @@ ("Java" :> 4) @@ ("Bachelor" :> 8) @@ ("Arts" :> 4) @@
  ("College" :> 7) @@ ("PRESENT" :> 7) @@ ("Unknown" :> 7) @@
  ("Austin" :> 6) @@ ("TX" :> 2) @@ ("Santiago" :> 8) @@ ("Chile" :> 5) @@
  ("wrote" :> 5) @@ ("and" :> 3) @@ ("python" :> 6) @@ ("systems" :> 7) @@
  ("data" :> 4) @@ ("of" :> 2) @@ ("in" :> 2) @@ ("2010" :> 4) @@
  ("2012" :> 4) @@ ("2015" :> 4) @@ ("2017" :> 4) @@ ("2018" :> 4) @@
  ("2019" :> 4) @@ ("1998" :> 4) @@ ("john.doe@example.com" :> 20) @@
  ("555-123-4567" :> 12) @@ ("https://janesmith.dev" :> 21) @@
  ("https://linkedin.com/in/jane" :> 28) @@
  ("https://www.github.com/jane" :> 27) @@
  ("https://es.linkedin.com/in/jane" :> 31)

\* whether a blank of the text stands before the token at index i: between
\* two tokens of a line, unless the first is an extra blank or the second is
\* an extra blank or an attached mark
BlankBefore(t, i) ==
  /\ i > 1
  /\ t[i] \notin {NL, SP, COLON, COMMA, DOT}
  /\ t[i - 1] \notin {NL, SP}

\* len(text) in characters
RECURSIVE CharLenFrom(_, _)
CharLenFrom(t, i) ==
  IF i > Len(t) THEN 0
  ELSE (IF t[i] \in WS \cup {COLON, COMMA, DOT, DASH} THEN 1 ELSE WordLength[t[i]])
       + (IF BlankBefore(t, i) THEN 1 ELSE 0)
       + CharLenFrom(t, i + 1)

CharLen(t) == CharLenFrom(t, 1)

----------------------------------------------------------------------------
(* identify_sections *)

\* section_patterns: the alternatives of each kind, lower case, in the
\* source's order; a sequence of words stands for the words joined by \s+
section_patterns ==
  [ summary |-> << <<"summary">>, <<"profile">>, <<"about">>, <<"objective">>,
                   <<"professional", "summary">>, <<"resumen">>, <<"perfil">>,
                   <<"objetivo">>, <<"acerca", "de">> >>,
    experience |-> << <<"experience">>, <<"work", "experience">>, <<"employment">>,
                      <<"employment", "history">>, <<"professional", "experience">>,
                      <<"career">>, <<"experiencia">>, <<"experiencia", "laboral">>,
                      <<"empleo">>, <<"historial", "de", "empleo">>,
                      <<"experiencia", "profesional">>, <<"trayectoria">>,
                      <<"trabajo">> >>,
    education |-> << <<"education">>, <<"educational", "background">>, <<"academic">>,
                     <<"academics">>, <<"qualifications">>, <<"degrees">>,
                     <<"estudios">> >>,
    skills |-> << <<"skills">>, <<"abilities">>, <<"competencies">>,
                  <<"technical", "skills">>, <<"core", "competencies">>,
                  <<"qualifications">>, <<"habilidades">>, <<"competencias">>,
                  <<"capacidades">>, <<"aptitudes">>, <<"conocimientos">> >>,
    certifications |-> << <<"certifications">>, <<"certificates">>, <<"credentials">>,
                          <<"certificaciones">>, <<"certificados">>,
                          <<"credenciales">> >>,
    languages |-> << <<"languages">>, <<"language", "skills">>, <<"idiomas">> >>,
    projects |-> << <<"projects">>, <<"key", "projects">>, <<"significant", "projects">>,
                    <<"project", "experience">>, <<"proyectos">>,
                    <<"proyectos", "clave">>, <<"proyectos", "significativos">> >>,
    interests |-> << <<"interests">>, <<"hobbies">>, <<"activities">>,
                     <<"personal", "interests">>, <<"intereses">>, <<"pasatiempos">>,
                     <<"actividades">>, <<"intereses", "personales">> >>,
    references |-> << <<"references">>, <<"referees">>,
                      <<"professional", "references">>, <<"referencias">>,
                      <<"referencias", "profesionales">> >>,
    publications |-> << <<"publications">>, <<"published", "works">>, <<"papers">>,
                        <<"publicaciones">>, <<"trabajos", "publicados">> >>,
    awards |-> << <<"awards">>, <<"honors">>, <<"achievements">>, <<"recognitions">>,
                  <<"premios">>, <<"honores">>, <<"logros">>,
                  <<"reconocimientos">> >>,
    volunteering |-> << <<"volunteering">>, <<"volunteer", "experience">>,
                        <<"community", "service">>, <<"voluntariado">>,
                        <<"experiencia", "de", "voluntariado">>,
                        <<"servicio", "comunitario">> >> ]

\* the kinds, in the order in which Python compares their names (the second
\* component of the tuples that section_positions.sort() compares)
KindOrder ==
  << "awards", "certifications", "education", "experience", "interests",
     "languages", "projects", "publications", "references", "skills",
     "summary", "volunteering" >>

KindRank(k) == CHOOSE i \in 1..Len(KindOrder) : KindOrder[i] = k

\* the kinds whose pattern ends in (?:\s+[A-Za-z]+){0,3}
ExtraWordKinds == {"summary"}

\* the offset after the words of phrase matched at offset p (the words
\* compared without letter case, \s+ between two of them), or -1
RECURSIVE PhraseEnd(_, _, _)
PhraseEnd(t, p, phrase) ==
  IF phrase = <<>> THEN p
  ELSE IF p < Len(t) /\ Lower(t[p + 1]) = Head(phrase)
       THEN IF Len(phrase) = 1 THEN p + 1
            ELSE PhraseEnd(t, SkipWS(t, p + 1), Tail(phrase))
       ELSE -1

\* (?:\s*:|\s*\n) at offset q: the offset after it, or -1
TrailerEnd(t, q) ==
  LET r == SkipWS(t, q)
      nls == {i \in (q + 1)..r : t[i] = NL}
  IN IF r < Len(t) /\ t[r + 1] = COLON THEN r + 1
     ELSE IF nls # {} THEN CHOOSE i \in nls : \A j \in nls : j <= i
     ELSE -1

\* (?:\s+[A-Za-z]+){n} at offset q: the offset after n further words, or -1
RECURSIVE ExtraWordsEnd(_, _, _)
ExtraWordsEnd(t, q, n) ==
  IF n = 0 THEN q
  ELSE LET r == SkipWS(t, q)
       IN IF q < Len(t) /\ r < Len(t) /\ IsAlpha(t[r + 1])
               /\ (r > q \/ IsAlpha(t[q]))
          THEN ExtraWordsEnd(t, r + 1, n - 1)
          ELSE -1

\* the first of two offsets that is one: "a or b" of two attempts to match
OrElse(a, b) == IF a # -1 THEN a ELSE b

\* (?:\s+[A-Za-z]+){0,n}(?:\s*:|\s*\n) at offset q, the repetition greedy:
\* the offset after the match, or -1
RECURSIVE GreedyExtraEnd(_, _, _)
GreedyExtraEnd(t, q, n) ==
  OrElse(IF ExtraWordsEnd(t, q, n) = -1 THEN -1 ELSE TrailerEnd(t, ExtraWordsEnd(t, q, n)),
         IF n = 0 THEN -1 ELSE GreedyExtraEnd(t, q, n - 1))

\* what follows the header words, which end at offset q (-1: they did not match)
HeaderTailFrom(t, q, extra) == IF q = -1 THEN -1 ELSE GreedyExtraEnd(t, q, extra)

\* the header words of one alternative and what follows them, from offset p:
\* the offset after the match, or -1
HeaderTailEnd(t, p, phrase, extra) == HeaderTailFrom(t, PhraseEnd(t, p, phrase), extra)

\* the first alternative of phrases that matches at offset p: the end, or -1
RECURSIVE AlternativesEnd(_, _, _, _)
AlternativesEnd(t, p, phrases, extra) ==
  IF phrases = <<>> THEN -1
  ELSE OrElse(HeaderTailEnd(t, p, Head(phrases), extra),
              AlternativesEnd(t, p, Tail(phrases), extra))

\* (?:^|\n\s*|\n\n)(phrases)(?:\s*:|\s*\n) matched with its start at offset s:
\* the end of the match, or -1
HeaderMatchEnd(t, s, phrases, extra) ==
  OrElse(IF s = 0 THEN AlternativesEnd(t, 0, phrases, extra) ELSE -1,
         IF s < Len(t) /\ t[s + 1] = NL
         THEN AlternativesEnd(t, SkipWS(t, s + 1), phrases, extra)
         ELSE -1)

\* re.search from offset from: the leftmost match <<start, end>>, or <<>>
RECURSIVE HeaderSearch(_, _, _, _)
HeaderSearchStep(t, from, e, phrases, extra) ==
  IF e # -1 THEN <<from, e>> ELSE HeaderSearch(t, from + 1, phrases, extra)

HeaderSearch(t, from, phrases, extra) ==
  IF from > Len(t) THEN <<>>
  ELSE HeaderSearchStep(t, from, HeaderMatchEnd(t, from, phrases, extra), phrases, extra)

\* re.finditer: the ends of the successive non-overlapping matches
RECURSIVE HeaderFindIter(_, _, _, _)
HeaderFindIterStep(t, m, phrases, extra) ==
  IF m = <<>> THEN <<>>
  ELSE <<m[2]>> \o HeaderFindIter(t, m[2], phrases, extra)

HeaderFindIter(t, from, phrases, extra) ==
  HeaderFindIterStep(t, HeaderSearch(t, from, phrases, extra), phrases, extra)

\* section_positions before the sort: (start_pos, section_type) of every match
TagKind(ends, kind) == [i \in 1..Len(ends) |-> <<ends[i], kind>>]

SectionPositionsOf(t, kind) ==
  TagKind(HeaderFindIter(t, 0, section_patterns[kind],
                         IF kind \in ExtraWordKinds THEN 3 ELSE 0),
          kind)

RECURSIVE AllSectionPositions(_, _)
AllSectionPositions(t, kinds) ==
  IF kinds = <<>> THEN <<>>
  ELSE SectionPositionsOf(t, Head(kinds)) \o AllSectionPositions(t, Tail(kinds))

\* the order of the tuples (start_pos, section_type)
PositionLess(a, b) ==
  a[1] < b[1] \/ (a[1] = b[1] /\ KindRank(a[2]) < KindRank(b[2]))

\* list.sort() of tuples that are pairwise different
RECURSIVE SortPositions(_)
SortPositions(ps) ==
  IF ps = <<>> THEN <<>>
  ELSE LET m == CHOOSE i \in 1..Len(ps) :
                  \A j \in 1..Len(ps) : j = i \/ PositionLess(ps[i], ps[j])
       IN <<ps[m]>> \o
          SortPositions([i \in 1..(Len(ps) - 1) |-> IF i < m THEN ps[i] ELSE ps[i + 1]])

section_positions(t) == SortPositions(AllSectionPositions(t, KindOrder))

\* a faulty dict: the first value written under a key stays
DictSetFirstWins(d, key, value) ==
  IF \E i \in 1..Len(d) : d[i].key = key THEN d ELSE Append(d, value)

\* sections[key] = value on a dict: an existing key keeps its place
DictSet(d, key, value) ==
  IF \E i \in 1..Len(d) : d[i].key = key
  THEN [i \in 1..Len(d) |-> IF d[i].key = key THEN value ELSE d[i]]
  ELSE Append(d, value)

\* a faulty loop: every slice runs to the end of the text
RECURSIVE SectionsLoopToEnd(_, _, _, _)
SectionsLoopToEnd(t, ps, i, sections) ==
  IF i > Len(ps) THEN sections
  ELSE LET item == [ key |-> ps[i][2],
                     body |-> Strip(Slice(t, ps[i][1], Len(t))),
                     start |-> ps[i][1], stop |-> Len(t) ]
       IN SectionsLoopToEnd(t, ps, i + 1, DictSet(sections, item.key, item))

\* The dict that identify_sections returns, as the sequence of its items in
\* the dict's own (insertion) order.  body is the value stored; start and
\* stop are the offsets of the slice text[start_pos:end_pos] it was cut from.
RECURSIVE SectionsLoop(_, _, _, _)
SectionsLoop(t, ps, i, sections) ==
  IF i > Len(ps) THEN sections
  ELSE LET start_pos == ps[i][1]
           end_pos == IF i < Len(ps) THEN ps[i + 1][1] ELSE Len(t)
           item == [ key |-> ps[i][2],
                     body |-> Strip(Slice(t, start_pos, end_pos)),
                     start |-> start_pos, stop |-> end_pos ]
       IN SectionsLoop(t, ps, i + 1, DictSet(sections, item.key, item))

identify_sections(t) == SectionsLoop(t, section_positions(t), 1, <<>>)

\* dict lookups
HasKey(d, key) == \E i \in 1..Len(d) : d[i].key = key
Lookup(d, key) == d[CHOOSE i \in 1..Len(d) : d[i].key = key]

----------------------------------------------------------------------------
(* extract_work_experiences_v2 *)

\* experience_pattern and education_pattern of extract_work_experiences_v2
experience_pattern ==
  << <<"experience">>, <<"work", "experience">>, <<"employment">>,
     <<"professional", "experience">>, <<"experiencia">>, <<"trayectoria">> >>

education_pattern ==
  << <<"education">>, <<"educational">>, <<"academic">>, <<"academics">>,
     <<"qualifications">>, <<"degrees">> >>

\* a faulty search: without an experience header the whole text is the section
SectionBetweenOrWholeText(t, experience_match, education_match) ==
  LET start_idx == experience_match[2]
      end_idx == IF education_match # <<>> THEN education_match[1] ELSE Len(t)
  IN IF experience_match # <<>> THEN Strip(Slice(t, start_idx, end_idx)) ELSE Strip(t)

\* text[start_idx:end_idx].strip() of the two matches (<<>>: no match); the
\* result is <<>> (None) when the experience header is not found.  end_idx
\* is the start of the first education header of the whole text.
SectionBetween(t, experience_match, education_match) ==
  LET start_idx == experience_match[2]
      end_idx == IF education_match # <<>> THEN education_match[1] ELSE Len(t)
  IN IF experience_match # <<>> THEN Strip(Slice(t, start_idx, end_idx)) ELSE <<>>

\* the experience section by the direct search
DirectExperienceSection(t) ==
  SectionBetween(t, HeaderSearch(t, 0, experience_pattern, 0),
                 HeaderSearch(t, 0, education_pattern, 0))

\* the section the anchors are searched in, given the result of the direct
\* search and of identify_sections: [found |-> FALSE] stands for the early
\* "return []"
SectionOrFallback(direct, sections) ==
  IF direct # <<>> THEN [found |-> TRUE, section |-> direct]
  ELSE IF HasKey(sections, "experience")
       THEN [found |-> TRUE, section |-> Lookup(sections, "experience").body]
       ELSE [found |-> FALSE, section |-> <<>>]

ExperienceSection(t) == SectionOrFallback(DirectExperienceSection(t), identify_sections(t))

FullMonthsEn ==
  { "january", "february", "march", "april", "may", "june", "july", "august",
    "september", "october", "november", "december" }

FullMonthsEs ==
  { "enero", "febrero", "marzo", "abril", "mayo", "junio", "julio", "agosto",
    "septiembre", "octubre", "noviembre", "diciembre" }

\* the words matching (?:Jan|Feb|...|Dec)[a-z]*
AbbrevMonthsEn ==
  { "jan", "feb", "mar", "apr", "jun", "jul", "aug", "sep", "oct", "nov", "dec" }
  \cup FullMonthsEn
  \cup { "febrero", "marzo", "mayo", "junio", "julio", "septiembre", "octubre",
         "noviembre" }

\* the words matching (?:Ene|Feb|...|Dic)[a-z]*
AbbrevMonthsEs ==
  { "ene", "feb", "mar", "abr", "may", "jun", "jul", "ago", "sep", "oct", "nov",
    "dic" }
  \cup FullMonthsEs
  \cup { "february", "march", "june", "july", "september", "october", "november" }

NowEn == {"present", "current"}
NowEs == {"presente", "actual", "actualidad"}

\* a word matching (19|20)\d{2}
IsYear(w) == IsDigits4(w) /\ YearValue[w] \div 100 \in {19, 20}

\* date_patterns, in the source's order.  month: the words that may start the
\* range; toMonth: whether the range may end in a month and \d{4}; now: the
\* words that may end it; bare: the range of two years ("Just years").
date_patterns ==
  << [month |-> FullMonthsEn, toMonth |-> TRUE, now |-> {}, bare |-> FALSE],
     [month |-> FullMonthsEn, toMonth |-> FALSE, now |-> NowEn, bare |-> FALSE],
     [month |-> FullMonthsEs, toMonth |-> TRUE, now |-> {}, bare |-> FALSE],
     [month |-> FullMonthsEs, toMonth |-> FALSE, now |-> NowEs, bare |-> FALSE],
     [month |-> AbbrevMonthsEn, toMonth |-> TRUE, now |-> {}, bare |-> FALSE],
     [month |-> AbbrevMonthsEn, toMonth |-> FALSE, now |-> NowEn, bare |-> FALSE],
     [month |-> AbbrevMonthsEs, toMonth |-> TRUE, now |-> {}, bare |-> FALSE],
     [month |-> AbbrevMonthsEs, toMonth |-> FALSE, now |-> NowEs, bare |-> FALSE],
     [month |-> {}, toMonth |-> FALSE, now |-> NowEn \cup NowEs, bare |-> TRUE] >>

\* the blanks of a line from offset p on
RECURSIVE SkipSP(_, _)
SkipSP(l, p) == IF p < Len(l) /\ l[p + 1] = SP THEN SkipSP(l, p + 1) ELSE p

\* [-a]+ at offset p: dashes, or the connector "a"; the offset after it, or -1
RECURSIVE SkipDashes(_, _)
SkipDashes(l, p) == IF p < Len(l) /\ l[p + 1] = DASH THEN SkipDashes(l, p + 1) ELSE p

SeparatorEnd(l, p) ==
  IF p < Len(l) /\ l[p + 1] = DASH THEN SkipDashes(l, p)
  ELSE IF p < Len(l) /\ Lower(l[p + 1]) = "a" THEN p + 1
  ELSE -1

\* a word of set ws and \s+\d{4} at offset p: the offset after them, or -1
MonthYearEnd(l, p, ws) ==
  LET q == SkipSP(l, p + 1)
  IN IF p < Len(l) /\ Lower(l[p + 1]) \in ws /\ q < Len(l) /\ IsDigits4(l[q + 1])
     THEN q + 1 ELSE -1

\* one date pattern matched with its start at offset p of a line: the end, or -1
DateMatchEnd(l, p, pat) ==
  LET first == IF pat.bare
               THEN (IF p < Len(l) /\ IsYear(l[p + 1]) THEN p + 1 ELSE -1)
               ELSE MonthYearEnd(l, p, pat.month)
      sep == IF first = -1 THEN -1 ELSE SeparatorEnd(l, SkipSP(l, first))
      q == IF sep = -1 THEN -1 ELSE SkipSP(l, sep)
  IN IF q = -1 THEN -1
     ELSE IF pat.bare /\ q < Len(l) /\ IsYear(l[q + 1]) THEN q + 1
     ELSE IF pat.toMonth THEN MonthYearEnd(l, q, pat.month)
     ELSE IF q < Len(l) /\ Lower(l[q + 1]) \in pat.now THEN q + 1
     ELSE -1

\* re.search(pattern, line): match.group(0) of the leftmost match, or <<>>
RECURSIVE DateSearch(_, _, _)
DateSearch(l, p, pat) ==
  IF p >= Len(l) THEN <<>>
  ELSE LET e == DateMatchEnd(l, p, pat)
       IN IF e # -1 THEN Slice(l, p, e) ELSE DateSearch(l, p + 1, pat)

\* the match of the first pattern of date_patterns that matches the line
RECURSIVE FirstDateMatch(_, _)
FirstDateMatch(l, k) ==
  IF k > Len(date_patterns) THEN <<>>
  ELSE LET m == DateSearch(l, 0, date_patterns[k])
       IN IF m # <<>> THEN m ELSE FirstDateMatch(l, k + 1)

\* date_positions: (i, match.group(0)) of every line that matches, i from 0
RECURSIVE date_positions_from(_, _)
date_positions_from(lines, i) ==
  IF i >= Len(lines) THEN <<>>
  ELSE LET m == FirstDateMatch(lines[i + 1], 1)
       IN (IF m # <<>> THEN << <<i, m>> >> ELSE <<>>)
          \o date_positions_from(lines, i + 1)

\* a faulty scan: every line is an anchor, with or without a date
date_positions_every_line(lines) == [i \in 1..Len(lines) |-> <<i - 1, lines[i]>>]

date_positions(lines) == date_positions_from(lines, 0)

Unknown == <<"Unknown">>

\* title_keywords; "keyword in candidate" compares with letter case
title_keywords ==
  { "Director", "CIO", "Chief", "Manager", "Lead", "Engineer", "Developer",
    "Architect", "Analyst", "Consultant", "Specialist", "Asesor", "Jefe",
    "Gerente", "Ingeniero" }

HasTitleKeyword(candidate) == \E i \in 1..Len(candidate) : candidate[i] \in title_keywords

\* company_line[0].isupper() of a stripped line
StartsUpper(l) == l # <<>> /\ IsUpperInitial(l[1])

\* len(line.split())
RECURSIVE WordCount(_)
WordCount(l) ==
  IF l = <<>> THEN 0
  ELSE (IF Head(l) \in WS \cup {COLON, COMMA, DOT} THEN 0 ELSE 1) + WordCount(Tail(l))

\* "needle in line" of two strings
Contains(l, needle) ==
  \E p \in 0..(Len(l) - Len(needle)) : Slice(l, p, p + Len(needle)) = needle

\* the company found in the first lines of the job text, or "Unknown"
RECURSIVE FirstCompanyLine(_)
FirstCompanyLine(ls) ==
  IF ls = <<>> THEN Unknown
  ELSE IF Strip(Head(ls)) # <<>> /\ StartsUpper(Strip(Head(ls)))
          /\ WordCount(Strip(Head(ls))) <= 5
       THEN Strip(Head(ls))
       ELSE FirstCompanyLine(Tail(ls))

\* the company of the entry whose date line is lines[start_idx]
CompanyOf(lines, start_idx, job_lines) ==
  LET company_line == IF start_idx > 0 THEN Strip(lines[start_idx]) ELSE <<>>
      above == IF start_idx > 0 /\ company_line # <<>> /\ StartsUpper(company_line)
               THEN company_line ELSE Unknown
  IN IF above # Unknown THEN above
     ELSE FirstCompanyLine(Slice(job_lines, 0, 2))

\* the first line of the job text that is not the company and holds no date
RECURSIVE FirstOtherLine(_, _, _)
FirstOtherLine(ls, company, date_text) ==
  IF ls = <<>> THEN <<>>
  ELSE IF Head(ls) # company /\ ~Contains(Head(ls), date_text)
       THEN << Strip(Head(ls)) >>
       ELSE FirstOtherLine(Tail(ls), company, date_text)

\* title_candidates, in the order in which they are appended
TitleCandidates(lines, start_idx, job_lines, company, date_text) ==
  (IF start_idx > 0 /\ company # Strip(lines[start_idx])
   THEN << Strip(lines[start_idx]) >> ELSE <<>>)
  \o (IF start_idx > 1 /\ company = Strip(lines[start_idx])
      THEN << Strip(lines[start_idx - 1]) >> ELSE <<>>)
  \o FirstOtherLine(job_lines, company, date_text)

RECURSIVE FirstKeywordCandidate(_)
FirstKeywordCandidate(cands) ==
  IF cands = <<>> THEN Unknown
  ELSE IF HasTitleKeyword(Head(cands)) THEN Head(cands)
  ELSE FirstKeywordCandidate(Tail(cands))

\* the title of the entry
TitleOf(lines, start_idx, job_lines, company, date_text) ==
  LET title_candidates == TitleCandidates(lines, start_idx, job_lines, company, date_text)
      keyword == FirstKeywordCandidate(title_candidates)
  IN IF start_idx > 0
     THEN (IF keyword = Unknown /\ title_candidates # <<>>
           THEN title_candidates[1] ELSE keyword)
     ELSE Unknown

\* description_lines
RECURSIVE DescriptionLines(_, _, _, _)
DescriptionLines(ls, company, title, description_lines) ==
  IF ls = <<>> THEN description_lines
  ELSE IF Strip(Head(ls)) = <<>> /\ description_lines = <<>>
       THEN DescriptionLines(Tail(ls), company, title, description_lines)
  ELSE IF Strip(Head(ls)) # company /\ Strip(Head(ls)) # title
       THEN DescriptionLines(Tail(ls), company, title, Append(description_lines, Head(ls)))
  ELSE DescriptionLines(Tail(ls), company, title, description_lines)

\* the entry appended for date_positions[j] (j from 1)
JobEntry(lines, dps, j) ==
  LET start_idx == dps[j][1]
      date_text == dps[j][2]
      end_idx == IF j < Len(dps) THEN dps[j + 1][1] ELSE Len(lines)
      job_lines == Slice(lines, start_idx, end_idx)
      company == CompanyOf(lines, start_idx, job_lines)
      title == TitleOf(lines, start_idx, job_lines, company, date_text)
  IN [ company |-> company,
       title |-> title,
       date |-> date_text,
       description |-> Strip(JoinLines(DescriptionLines(job_lines, company, title, <<>>))) ]

\* re.findall(r'(19|20)\d{2}', date_str): the group of every match, as int
RECURSIVE FindallYears(_)
FindallYears(date_str) ==
  IF date_str = <<>> THEN <<>>
  ELSE (IF IsYear(Head(date_str)) THEN << YearValue[Head(date_str)] \div 100 >> ELSE <<>>)
       \o FindallYears(Tail(date_str))

MaxOf(ns) == CHOOSE n \in {ns[i] : i \in 1..Len(ns)} : \A i \in 1..Len(ns) : ns[i] <= n

\* the sort key of an entry
extract_year(date_str) ==
  IF date_str = <<>> \/ date_str = Unknown THEN 0
  ELSE IF FindallYears(date_str) # <<>> THEN MaxOf(FindallYears(date_str))
  ELSE 0

\* a faulty sort: an entry goes before the entries of its own key
RECURSIVE InsertBeforeEqual(_, _)
InsertBeforeEqual(sorted, e) ==
  IF sorted = <<>> THEN <<e>>
  ELSE IF extract_year(Head(sorted).date) > extract_year(e.date)
       THEN <<Head(sorted)>> \o InsertBeforeEqual(Tail(sorted), e)
       ELSE <<e>> \o sorted

\* list.sort(key=..., reverse=True): stable, entries of equal keys keep their order
RECURSIVE InsertByYear(_, _)
InsertByYear(sorted, e) ==
  IF sorted = <<>> THEN <<e>>
  ELSE IF extract_year(Head(sorted).date) >= extract_year(e.date)
       THEN <<Head(sorted)>> \o InsertByYear(Tail(sorted), e)
       ELSE <<e>> \o sorted

RECURSIVE SortByYear(_, _)
SortByYear(es, sorted) ==
  IF es = <<>> THEN sorted ELSE SortByYear(Tail(es), InsertByYear(sorted, Head(es)))

\* the entries of the anchors dps, sorted
JobEntriesAt(lines, dps) ==
  IF dps = <<>> THEN <<>>
  ELSE SortByYear([j \in 1..Len(dps) |-> JobEntry(lines, dps, j)], <<>>)

\* the entries of the lines of the experience section
JobEntries(lines) == JobEntriesAt(lines, date_positions(lines))

\* the entries of the experience section es
WorkExperiencesIn(es) ==
  IF ~es.found THEN <<>> ELSE JobEntries(SplitLines(es.section))

extract_work_experiences_v2(t) == WorkExperiencesIn(ExperienceSection(t))

----------------------------------------------------------------------------
(* extract_skills *)

\* skill_patterns, lower case, in the source's order; the words of an
\* alternative are joined by one blank
skill_patterns ==
  << << <<"python">>, <<"java">>, <<"javascript">>, <<"typescript">>, <<"php">>,
        <<"ruby">>, <<"swift">>, <<"kotlin">>, <<"go">>, <<"rust">>, <<"sql">>,
        <<"html">>, <<"css">>, <<"r">>, <<"matlab">>, <<"scala">>, <<"perl">>,
        <<"shell">>, <<"bash">> >>,
     << <<"react">>, <<"angular">>, <<"vue">>, <<"express">>, <<"django">>,
        <<"flask">>, <<"spring">>, <<"laravel">>, <<"rails">>, <<"tensorflow">>,
        <<"pytorch">>, <<"pandas">> >>,
     << <<"git">>, <<"docker">>, <<"kubernetes">>, <<"aws">>, <<"azure">>, <<"gcp">>,
        <<"jenkins">>, <<"jira">>, <<"confluence">>, <<"tableau">>, <<"powerbi">>,
        <<"excel">>, <<"word">>, <<"powerpoint">>, <<"photoshop">>,
        <<"illustrator">> >>,
     << <<"leadership">>, <<"communication">>, <<"teamwork">>,
        <<"critical", "thinking">>, <<"time", "management">>,
        <<"project", "management">>, <<"agile">>, <<"scrum">>, <<"liderazgo">>,
        <<"trabajo", "en", "equipo">> >>,
     << <<"iso", "27001">>, <<"iso", "27000">>, <<"information", "security">>,
        <<"cybersecurity">>, <<"security">>, <<"sox">>, <<"ciberseguridad">> >> >>

\* the words of phrase, one after the other, at offset p: the end, or -1
WordsEnd(t, p, phrase) ==
  IF p + Len(phrase) <= Len(t)
     /\ \A i \in 1..Len(phrase) : Lower(t[p + i]) = phrase[i]
  THEN p + Len(phrase) ELSE -1

RECURSIVE FirstWordsEnd(_, _, _)
FirstWordsEnd(t, p, phrases) ==
  IF phrases = <<>> THEN -1
  ELSE IF WordsEnd(t, p, Head(phrases)) # -1 THEN WordsEnd(t, p, Head(phrases))
  ELSE FirstWordsEnd(t, p, Tail(phrases))

\* re.findall(pattern, text, re.IGNORECASE): the matches as they are written
RECURSIVE SkillFindall(_, _, _)
SkillFindall(t, p, phrases) ==
  IF p >= Len(t) THEN {}
  ELSE LET e == FirstWordsEnd(t, p, phrases)
       IN IF e # -1 THEN {Slice(t, p, e)} \cup SkillFindall(t, e, phrases)
          ELSE SkillFindall(t, p + 1, phrases)

\* the set skills (the list returned holds its elements in no set order)
extract_skills(t) ==
  UNION {SkillFindall(t, 0, skill_patterns[k]) : k \in 1..Len(skill_patterns)}

----------------------------------------------------------------------------
(* extract_education *)

\* re.split(r'\n\s*\n', s): a separator is a run of whitespace from its first
\* to its last newline, when it holds two
RECURSIVE SplitParagraphs(_, _, _)
SplitParagraphs(t, from, p) ==
  IF p >= Len(t) THEN << Slice(t, from, Len(t)) >>
  ELSE LET r == SkipWS(t, p)
           nls == {i \in (p + 1)..r : t[i] = NL}
           last == CHOOSE i \in nls : \A j \in nls : j <= i
       IN IF t[p + 1] = NL /\ Cardinality(nls) >= 2
          THEN << Slice(t, from, p) >> \o SplitParagraphs(t, last, last)
          ELSE SplitParagraphs(t, from, p + 1)

\* degree_patterns: for each pattern, the part of a word of the vocabulary
\* that its keywords match (no word boundary, no letter case), and whether
\* the match ends the word
degree_patterns ==
  << ("Bachelor" :> [match |-> "Bachelor", atEnd |-> TRUE]),
     ("Master" :> [match |-> "Master", atEnd |-> TRUE])
       @@ ("Summary" :> [match |-> "ma", atEnd |-> FALSE])
       @@ ("systems" :> [match |-> "ms", atEnd |-> TRUE]),
     ("Doctor" :> [match |-> "Doctor", atEnd |-> TRUE]) >>

\* the fields after "of" in each degree pattern
degree_fields ==
  << {"science", "arts", "business", "engineering"},
     {"science", "arts", "business", "engineering"},
     {"science", "arts", "philosophy", "engineering"} >>

\* matches[0] of pattern k in a paragraph, or <<>>
RECURSIVE DegreeFindFirst(_, _, _)
DegreeFindFirst(par, p, k) ==
  IF p >= Len(par) THEN <<>>
  ELSE IF par[p + 1] \in DOMAIN degree_patterns[k]
       THEN LET m == degree_patterns[k][par[p + 1]]
            IN IF m.atEnd /\ p + 3 <= Len(par) /\ Lower(par[p + 2]) = "of"
                  /\ Lower(par[p + 3]) \in degree_fields[k]
               THEN << m.match, par[p + 2], par[p + 3] >>
               ELSE << m.match >>
       ELSE DegreeFindFirst(par, p + 1, k)

\* the degree: the first match of the first pattern that has one
RECURSIVE DegreeOf(_, _)
DegreeOf(par, k) ==
  IF k > Len(degree_patterns) THEN <<>>
  ELSE IF DegreeFindFirst(par, 0, k) # <<>> THEN DegreeFindFirst(par, 0, k)
  ELSE DegreeOf(par, k + 1)

\* the words holding a keyword of institution_pattern
institution_keywords ==
  { "University", "College", "School", "Institute", "Universidad", "Escuela",
    "Instituto" }

\* the offsets after p up to which [a-zA-Z\s&]+ runs
RECURSIVE LetterRunEnd(_, _)
LetterRunEnd(par, p) ==
  IF p < Len(par) /\ (IsAlpha(par[p + 1]) \/ par[p + 1] \in WS)
  THEN LetterRunEnd(par, p + 1) ELSE p

\* institution_pattern matched with its start at offset p: the end, or -1
InstitutionMatchEnd(par, p) ==
  LET r == LetterRunEnd(par, p + 1)
      ks == {i \in (p + 2)..r : par[i] \in institution_keywords}
  IN IF p < Len(par) /\ IsAlpha(par[p + 1]) /\ IsUpperInitial(par[p + 1]) /\ ks # {}
     THEN CHOOSE i \in ks : \A j \in ks : j <= i
     ELSE -1

\* institutions[0], or <<>>
RECURSIVE InstitutionOf(_, _)
InstitutionOf(par, p) ==
  IF p >= Len(par) THEN <<>>
  ELSE IF InstitutionMatchEnd(par, p) # -1 THEN Slice(par, p, InstitutionMatchEnd(par, p))
  ELSE InstitutionOf(par, p + 1)

\* str() of the group (19|20) of a year
CenturyText(w) == IF YearValue[w] \div 100 = 19 THEN "19" ELSE "20"

\* the words that end a range of years in extract_education
education_now == {"Present", "present", "Current", "current", "Actual", "actual"}

\* [-a]+ with letter case
EducationSeparatorEnd(par, p) ==
  IF p < Len(par) /\ par[p + 1] = DASH THEN SkipDashes(par, p)
  ELSE IF p < Len(par) /\ par[p + 1] = "a" THEN p + 1
  ELSE -1

\* f"{dates[0][0]}-{dates[0][1]}" of the first range of years, or <<>>: the
\* two groups of the expression, (19|20) and the end of the range
RECURSIVE EducationDateOf(_, _)
EducationDateOf(par, p) ==
  IF p >= Len(par) THEN <<>>
  ELSE LET sep == IF IsYear(par[p + 1]) THEN EducationSeparatorEnd(par, SkipWS(par, p + 1))
                  ELSE -1
           q == IF sep = -1 THEN -1 ELSE SkipWS(par, sep)
       IN IF q # -1 /\ q < Len(par) /\ (IsYear(par[q + 1]) \/ par[q + 1] \in education_now)
          THEN << CenturyText(par[p + 1]), DASH, par[q + 1] >>
          ELSE EducationDateOf(par, p + 1)

UnspecifiedDegree == <<"Unspecified", "Degree">>
UnspecifiedInstitution == <<"Unspecified", "Institution">>
UnknownDate == <<"Unknown", "Date">>

\* the entries of the paragraphs, in the order of the paragraphs
RECURSIVE EducationLoop(_)
EducationLoop(paragraphs) ==
  IF paragraphs = <<>> THEN <<>>
  ELSE LET paragraph == Head(paragraphs)
           degree == DegreeOf(paragraph, 1)
           institution == InstitutionOf(paragraph, 0)
           date == EducationDateOf(paragraph, 0)
       IN (IF Strip(paragraph) # <<>> /\ (degree # <<>> \/ institution # <<>>)
           THEN << [ degree |-> IF degree # <<>> THEN degree ELSE UnspecifiedDegree,
                     institution |-> IF institution # <<>> THEN institution
                                     ELSE UnspecifiedInstitution,
                     date |-> IF date # <<>> THEN date ELSE UnknownDate ] >>
           ELSE <<>>)
          \o EducationLoop(Tail(paragraphs))

\* sections.get(key, default)
DictGet(sections, key, default) ==
  IF HasKey(sections, key) THEN Lookup(sections, key).body ELSE default

\* the entries of an education section
EducationIn(education_section) ==
  IF education_section # <<>>
  THEN EducationLoop(SplitParagraphs(education_section, 0, 0))
  ELSE <<>>

\* the section is looked up in the sections of the argument itself
extract_education(t) == EducationIn(DictGet(identify_sections(t), "education", <<>>))

----------------------------------------------------------------------------
(* The scalar field extractors.  Their patterns match inside one word of   *)
(* the text (an address, a number, a URL), so each pattern is the table of *)
(* the words it matches in, with the text it matches there.                *)

\* None; no scalar extractor returns the empty string
None == <<>>

\* re.findall(pattern, text)[0], or None
FirstMatchIn(t, pattern) ==
  LET hits == {i \in 1..Len(t) : t[i] \in DOMAIN pattern}
  IN IF hits = {} THEN None
     ELSE <<pattern[t[CHOOSE i \in hits : \A j \in hits : i <= j]]>>

\* the first match of the first pattern, in the order of the list, that
\* matches anywhere in the text
RECURSIVE FirstPatternMatch(_, _, _)
FirstPatternMatch(t, patterns, k) ==
  IF k > Len(patterns) THEN None
  ELSE LET m == FirstMatchIn(t, patterns[k])
       IN IF m # None THEN m ELSE FirstPatternMatch(t, patterns, k + 1)

email_pattern == [w \in EmailWords |-> w]

extract_email(t) == FirstMatchIn(t, email_pattern)

\* linkedin_patterns: /in/, /profile/, www. with /in/
linkedin_patterns ==
  << ("https://linkedin.com/in/jane" :> "linkedin.com/in/jane") @@
     ("https://es.linkedin.com/in/jane" :> "linkedin.com/in/jane"),
     <<>>,
     <<>> >>

extract_linkedin(t) == FirstPatternMatch(t, linkedin_patterns, 1)

\* github_patterns: without and with www.
github_patterns ==
  << ("https://www.github.com/jane" :> "github.com/jane"),
     ("https://www.github.com/jane" :> "www.github.com/jane") >>

extract_github(t) == FirstPatternMatch(t, github_patterns, 1)

\* the names of the negative lookahead of website_pattern
excluded_platforms == {"linkedin", "github", "facebook", "twitter", "instagram"}

\* (?!(?:www\.)?(?:linkedin|github|facebook|twitter|instagram)\.com) fails:
\* the host, after "www." if it starts with it, starts with one of the
\* names and ".com" (no label of the vocabulary goes on after "com")
LookaheadFails(host) ==
  LET h == IF host # <<>> /\ host[1] = "www" THEN Tail(host) ELSE host
  IN Len(h) >= 2 /\ h[1] \in excluded_platforms /\ h[2] = "com"

\* website_pattern matches the whole of a URL that passes the lookahead
website_pattern ==
  [w \in {u \in DOMAIN UrlHost : ~LookaheadFails(UrlHost[u])} |-> w]

\* the marks the last group of the pattern takes after the URL
RECURSIVE UrlTail(_, _)
UrlTail(t, i) ==
  IF i <= Len(t) /\ t[i] \in {DOT, COLON} THEN <<t[i]>> \o UrlTail(t, i + 1) ELSE <<>>

extract_website(t) ==
  LET hits == {k \in 1..Len(t) : t[k] \in DOMAIN website_pattern}
      k == CHOOSE n \in hits : \A m \in hits : n <= m
  IN IF hits = {} THEN None ELSE <<website_pattern[t[k]]>> \o UrlTail(t, k + 1)

\* the first of the first three lines that is a name
RECURSIVE NameIn(_, _)
NameIn(lines, i) ==
  IF i > Len(lines) \/ i > 3 THEN None
  ELSE IF /\ lines[i] # <<>>
          /\ WordCount(Strip(lines[i])) <= 4
          /\ CharLen(Strip(lines[i])) > 3
       THEN Strip(lines[i])
       ELSE NameIn(lines, i + 1)

extract_name(t) == NameIn(SplitLines(t), 1)

\* the text with every blank written: each element is a word, a mark or
\* one character of whitespace
RECURSIVE CharsFrom(_, _)
CharsFrom(t, i) ==
  IF i > Len(t) THEN <<>>
  ELSE (IF BlankBefore(t, i) THEN <<SP>> ELSE <<>>) \o <<t[i]>> \o CharsFrom(t, i + 1)

Chars(t) == CharsFrom(t, 1)

\* the least of a set of offsets that is not empty
MinOf(S) == CHOOSE n \in S : \A m \in S : n <= m

\* e[k] is one character of whitespace; e[k] ends with a character of a word
IsSpaceAt(e, k) == k >= 1 /\ k <= Len(e) /\ e[k] \in WS
IsWordEndAt(e, k) ==
  k >= 1 /\ k <= Len(e) /\ e[k] \notin WS \cup {COLON, COMMA, DOT, DASH}

\* [A-Z][a-z]+ and [A-Z]{2} as whole words, \d{5} (no word of the vocabulary)
CapitalizedWords == DOMAIN LowerTable \ {"EXPERIENCE", "ENGINEER", "PRESENT", "TX"}
StateWords == {"TX"}
ZipWords == {}

\* (?:,)? and the blank before the state, from offset k - 1: the index of
\* the state, or 0
StateAfter(e, k) ==
  IF k + 2 <= Len(e) /\ e[k] = COMMA /\ e[k + 1] = SP /\ e[k + 2] \in StateWords
  THEN k + 2
  ELSE IF k + 1 <= Len(e) /\ e[k] = SP /\ e[k + 1] \in StateWords THEN k + 1
  ELSE IF k + 3 <= Len(e) /\ e[k] = SP /\ e[k + 1] = COMMA /\ e[k + 2] = SP
          /\ e[k + 3] \in StateWords
  THEN k + 3
  ELSE IF k + 2 <= Len(e) /\ e[k] = SP /\ e[k + 1] = SP /\ e[k + 2] \in StateWords
  THEN k + 2
  ELSE 0

\* the states that (?:[A-Z][a-z]+ ?){1,2}(?:,)? [A-Z]{2} reaches from index
\* s, two words before one
CityStateEnds(e, s) ==
  IF ~(s <= Len(e) /\ e[s] \in CapitalizedWords) THEN <<>>
  ELSE (IF s + 2 <= Len(e) /\ e[s + 1] = SP /\ e[s + 2] \in CapitalizedWords
           /\ StateAfter(e, s + 3) # 0
        THEN <<StateAfter(e, s + 3)>> ELSE <<>>)
       \o (IF StateAfter(e, s + 1) # 0 THEN <<StateAfter(e, s + 1)>> ELSE <<>>)

\* the same followed by " \d{5}": the index of the zip code, or 0
RECURSIVE CityStateZipEnd(_, _)
CityStateZipEnd(e, ends) ==
  IF ends = <<>> THEN 0
  ELSE IF Head(ends) + 2 <= Len(e) /\ e[Head(ends) + 1] = SP
          /\ e[Head(ends) + 2] \in ZipWords
       THEN Head(ends) + 2
       ELSE CityStateZipEnd(e, Tail(ends))

\* the first match of location pattern 1 (zip TRUE) or 2 (zip FALSE)
CityStateMatch(e, zip) ==
  LET EndAt(s) == IF zip THEN CityStateZipEnd(e, CityStateEnds(e, s))
                  ELSE IF CityStateEnds(e, s) # <<>> THEN CityStateEnds(e, s)[1]
                  ELSE 0
      starts == {s \in 1..Len(e) : EndAt(s) # 0}
  IN IF starts = {} THEN None ELSE SubSeq(e, MinOf(starts), EndAt(MinOf(starts)))

country_words == {"Chile", "Santiago", "Mexico", "Colombia", "Argentina"}

\* the letters a word that is not letters only starts with
LetterPrefix ==
  ("john.doe@example.com" :> "john") @@
  ("https://janesmith.dev" :> "https") @@
  ("https://linkedin.com/in/jane" :> "https") @@
  ("https://www.github.com/jane" :> "https") @@
  ("https://es.linkedin.com/in/jane" :> "https")

\* [A-Za-z\s]+ from index k on, greedy: what it matches
RECURSIVE LettersAndSpaces(_, _)
LettersAndSpaces(e, k) ==
  IF k > Len(e) THEN <<>>
  ELSE IF e[k] \in WS \/ IsAlpha(e[k]) THEN <<e[k]>> \o LettersAndSpaces(e, k + 1)
  ELSE IF e[k] \in DOMAIN LetterPrefix THEN <<LetterPrefix[e[k]]>>
  ELSE <<>>

\* (?:Chile|Santiago|...)(?:,\s*[A-Za-z\s]+)?
CountryMatch(e) ==
  LET hits == {k \in 1..Len(e) : e[k] \in country_words}
      k == MinOf(hits)
      tail == LettersAndSpaces(e, k + 2)
  IN IF hits = {} THEN None
     ELSE IF k < Len(e) /\ e[k + 1] = COMMA /\ tail # <<>>
          THEN <<e[k], COMMA>> \o tail
          ELSE <<e[k]>>

\* Region (?:Metropolitana|...)
RegionMatch(e) ==
  LET hits == {k \in 1..(Len(e) - 2) :
                 e[k] = "Region" /\ e[k + 1] = SP /\ e[k + 2] = "Metropolitana"}
  IN IF hits = {} THEN None ELSE SubSeq(e, MinOf(hits), MinOf(hits) + 2)

\* location_patterns in their order
LocationIn(e) ==
  IF CityStateMatch(e, TRUE) # None THEN CityStateMatch(e, TRUE)
  ELSE IF CityStateMatch(e, FALSE) # None THEN CityStateMatch(e, FALSE)
  ELSE IF CountryMatch(e) # None THEN CountryMatch(e)
  ELSE RegionMatch(e)

extract_location(t) == LocationIn(Chars(t))

\* the three groups of the first of title_patterns
level_words == {"Senior", "Lead", "Principal", "Junior", "Staff"}

domain_words ==
  { "Software", "Data", "Frontend", "Backend", "Web", "Mobile", "UI", "UX",
    "DevOps", "Cloud", "AI", "QA" }

domain_phrases == { <<"Full", SP, "Stack">>, <<"Machine", SP, "Learning">> }

role_words ==
  { "Engineer", "Developer", "Scientist", "Analyst", "Designer", "Architect",
    "Manager", "Director", "Consultant", "Specialist" }

\* the index where the domain that ends at index k starts, or 0
DomainStart(e, k) ==
  IF k >= 1 /\ k <= Len(e) /\ e[k] \in domain_words THEN k
  ELSE IF k >= 3 /\ k <= Len(e) /\ SubSeq(e, k - 2, k) \in domain_phrases THEN k - 2
  ELSE 0

IsLevelAt(e, k) == k >= 1 /\ k <= Len(e) /\ e[k] \in level_words

\* the indices at which \b(level)?\s?(domain)?\s?(role)\b can start to match
\* the role at index r; d is where the domain before the role starts
TitleStarts(e, r, d) ==
  {r}
  \cup (IF IsSpaceAt(e, r - 1) /\ d # 0 THEN {d} ELSE {})
  \cup (IF IsSpaceAt(e, r - 1) /\ d # 0 /\ IsSpaceAt(e, d - 1) /\ IsLevelAt(e, d - 2)
        THEN {d - 2} ELSE {})
  \cup (IF IsSpaceAt(e, r - 1) /\ d # 0 /\ IsSpaceAt(e, d - 1) /\ IsWordEndAt(e, d - 2)
        THEN {d - 1} ELSE {})
  \cup (IF IsSpaceAt(e, r - 1) /\ IsLevelAt(e, r - 2) THEN {r - 2} ELSE {})
  \cup (IF IsSpaceAt(e, r - 1) /\ IsSpaceAt(e, r - 2) /\ IsLevelAt(e, r - 3)
        THEN {r - 3} ELSE {})
  \cup (IF IsSpaceAt(e, r - 1) /\ IsWordEndAt(e, r - 2) THEN {r - 1} ELSE {})
  \cup (IF IsSpaceAt(e, r - 1) /\ IsSpaceAt(e, r - 2) /\ IsWordEndAt(e, r - 3)
        THEN {r - 2} ELSE {})

\* the second and the third of title_patterns
executive_titles ==
  {"CIO", "CTO", "CEO", "VP", "Director", "Directora", "Gerente", "Jefe", "Jefea"}

spanish_titles ==
  { "Ingeniero", "Desarrollador", "Analista", "Consultor", "Arquitecto",
    "Especialista", "Ingenieroa", "Desarrolladora", "Analistaa", "Consultora",
    "Arquitectoa", "Especialistaa" }

\* title_patterns in their order; the leftmost match of the first ends at
\* the first role of the text
JobTitleIn(t, e) ==
  LET roles == {r \in 1..Len(e) : e[r] \in role_words}
      r == MinOf(roles)
  IN IF roles # {}
     THEN SubSeq(e, MinOf(TitleStarts(e, r, IF IsSpaceAt(e, r - 1)
                                             THEN DomainStart(e, r - 2) ELSE 0)), r)
     ELSE FirstPatternMatch(t, << [w \in executive_titles |-> w],
                                  [w \in spanish_titles |-> w] >>, 1)

extract_job_title(t) == JobTitleIn(t, Chars(t))

\* the last three digits of a word of four
LastThreeDigits ==
  ("2010" :> "010") @@ ("2012" :> "012") @@ ("2015" :> "015") @@ ("2017" :> "017") @@
  ("2018" :> "018") @@ ("2019" :> "019") @@ ("1998" :> "998")

\* the first of phone_patterns at the first telephone number: the optional
\* \+?\d{1,3}[-.\s]? before it takes three digits of a year one character
\* of whitespace away
PhoneAt(e, k) ==
  IF k >= 3 /\ e[k - 1] \in WS /\ IsDigits4(e[k - 2])
  THEN <<LastThreeDigits[e[k - 2]], e[k - 1], e[k]>>
  ELSE <<e[k]>>

\* the second of phone_patterns on three years in a row, one character of
\* whitespace apart: \d{1,3} \d{1,4}\d{3} \d{4}
YearsAsPhone(e) ==
  LET hits == {k \in 1..(Len(e) - 4) :
                 /\ IsDigits4(e[k]) /\ e[k + 1] \in WS /\ IsDigits4(e[k + 2])
                 /\ e[k + 3] \in WS /\ IsDigits4(e[k + 4])}
      k == MinOf(hits)
  IN IF hits = {} THEN None
     ELSE <<LastThreeDigits[e[k]], e[k + 1], e[k + 2], e[k + 3], e[k + 4]>>

\* phone_patterns in their order: the first matches every telephone number
\* of the vocabulary, the third and the fourth nothing the second does not
PhoneIn(e) ==
  LET hits == {k \in 1..Len(e) : e[k] \in PhoneWords}
  IN IF hits # {} THEN PhoneAt(e, MinOf(hits)) ELSE YearsAsPhone(e)

extract_phone(t) == PhoneIn(Chars(t))

----------------------------------------------------------------------------
(* extract_structured_info and extract_from_pdf.  A call of print raises   *)
(* when the standard output is gone (a closed stream, a broken pipe):      *)
(* stdout names the first print that raises, NoPrint when none does.       *)

NoPrint == "none"
StartingPrint == "Starting PDF extraction"
SelectedPrint == "Selected"
FoundSectionPrint == "Found experience section"

\* the outcome of a call: an exception that leaves it, or the value returned
Raised(by) == [raised |-> TRUE, by |-> by]
Returned(value) == [raised |-> FALSE, value |-> value]

\* the dict data once every extractor has returned
StructuredData(t, sections, work_experiences) ==
  [ email |-> extract_email(t),
    phone |-> extract_phone(t),
    linkedin |-> extract_linkedin(t),
    github |-> extract_github(t),
    website |-> extract_website(t),
    name |-> extract_name(t),
    location |-> extract_location(t),
    job_title |-> extract_job_title(t),
    skills |-> extract_skills(DictGet(sections, "skills", t)),
    education |-> extract_education(DictGet(sections, "education", t)),
    work_experiences |-> work_experiences,
    sections |-> sections ]

\* extract_work_experiences_v2 with its prints: the first of them follows
\* the search of the section
WorkExperiencesOutcome(es, stdout) ==
  IF es.found /\ stdout = FoundSectionPrint
  THEN Raised("extract_work_experiences_v2")
  ELSE Returned(WorkExperiencesIn(es))

\* no call of extract_structured_info is inside a try
StructuredInfoOutcome(t, work) ==
  IF work.raised THEN work
  ELSE Returned(StructuredData(t, identify_sections(t), work.value))

extract_structured_info(t, stdout) ==
  StructuredInfoOutcome(t, WorkExperiencesOutcome(ExperienceSection(t), stdout))

\* the empty dict
EmptyDict == <<>>

ErrorResponse(error) ==
  [error |-> error, full_text |-> <<>>, sections |-> EmptyDict,
   structured_data |-> EmptyDict]

\* '\n\n'.join(all_text)
RECURSIVE JoinPages(_)
JoinPages(ps) ==
  IF ps = <<>> THEN <<>>
  ELSE IF Len(ps) = 1 THEN ps[1]
  ELSE ps[1] \o <<NL, NL>> \o JoinPages(Tail(ps))

\* the texts of the pages that gave text: a page that raises, an empty one
\* and a blank one are passed over
RECURSIVE PageTexts(_)
PageTexts(pages) ==
  IF pages = <<>> THEN <<>>
  ELSE (IF ~Head(pages).raises /\ Strip(Head(pages).text) # <<>>
        THEN <<Head(pages).text>> ELSE <<>>) \o PageTexts(Tail(pages))

\* extraction_results['pypdf']
PypdfResult(pypdf) ==
  IF pypdf.raises
  THEN [key |-> "pypdf", text |-> <<>>, error |-> "raised", length |-> 0]
  ELSE [key |-> "pypdf", text |-> JoinPages(PageTexts(pypdf.pages)),
        pages |-> PageTexts(pypdf.pages),
        length |-> CharLen(JoinPages(PageTexts(pypdf.pages)))]

\* extraction_results['pdfminer']
PdfminerResult(pdfminer) ==
  IF pdfminer.raises
  THEN [key |-> "pdfminer", text |-> <<>>, error |-> "raised", length |-> 0]
  ELSE [key |-> "pdfminer", text |-> pdfminer.text, length |-> CharLen(pdfminer.text)]

\* extraction_results in the order of its keys
ExtractionResults(pypdf, pdfminer) ==
  <<PypdfResult(pypdf)>>
  \o (IF pdfminer.available THEN <<PdfminerResult(pdfminer)>> ELSE <<>>)

\* a faulty filter: an empty text counts as extracted
IsValidExtractionOfAnyLength(v) == v.length >= 0 /\ "text" \in DOMAIN v

\* v.get('length', 0) > 0 and 'text' in v
IsValidExtraction(v) == v.length > 0 /\ "text" \in DOMAIN v

valid_extractions(extraction_results) ==
  SelectSeq(extraction_results, IsValidExtraction)

\* a faulty choice: the shortest text
ShortestMethod(valid) ==
  valid[MinOf({i \in 1..Len(valid) :
                 \A j \in 1..Len(valid) : valid[i].length <= valid[j].length})]

\* max(valid_extractions.items(), key=...): the first of the longest
best_method(valid) ==
  valid[MinOf({i \in 1..Len(valid) :
                 \A j \in 1..Len(valid) : valid[j].length <= valid[i].length})]

\* sections["page_<i>"] for the pages of the PyPDF extraction
PageKey == <<"page_1", "page_2">>

PageSections(extraction) ==
  IF extraction.key = "pypdf" /\ "pages" \in DOMAIN extraction
  THEN [i \in 1..Len(extraction.pages) |->
          [key |-> PageKey[i], body |-> extraction.pages[i]]]
  ELSE <<>>

\* sections.update(identified_sections)
RECURSIVE DictUpdate(_, _)
DictUpdate(d, items) ==
  IF items = <<>> THEN d
  ELSE DictUpdate(DictSet(d, Head(items).key,
                          [key |-> Head(items).key, body |-> Head(items).body]),
                  Tail(items))

\* lines 160 to 182, on the extraction selected
ResponseOf(extraction, stdout) ==
  IF stdout = SelectedPrint THEN ErrorResponse("Extraction failed")
  ELSE LET structured_data == extract_structured_info(extraction.text, stdout)
       IN IF structured_data.raised THEN ErrorResponse("Extraction failed")
          ELSE [ full_text |-> extraction.text,
                 sections |->
                   DictUpdate(<<[key |-> "content", body |-> extraction.text]>>
                                \o PageSections(extraction),
                              structured_data.value.sections),
                 structured_data |-> structured_data.value ]

\* lines 144 to 182, on the results of the methods
SelectAndRespond(valid, stdout) ==
  IF valid = <<>> THEN ErrorResponse("All extraction methods failed")
  ELSE ResponseOf(best_method(valid), stdout)

\* source: what pdf_path names ("missing", "unreadable", "file") or "data"
\* when pdf_data is given instead
extract_from_pdf(source, pypdf, pdfminer, stdout) ==
  IF stdout = StartingPrint THEN ErrorResponse("Extraction failed")
  ELSE IF source = "missing" THEN ErrorResponse("PDF file does not exist at path")
  ELSE IF source = "unreadable" THEN ErrorResponse("Cannot read PDF file")
  ELSE SelectAndRespond(valid_extractions(ExtractionResults(pypdf, pdfminer)), stdout)

----------------------------------------------------------------------------
(* The inputs: texts built line by line from a vocabulary of lines, and the *)
(* example texts of the specification                                       *)

MaxLines == 4

LineVocabulary ==
  { <<"Experience">>,
    <<"Education", COLON>>,
    <<"Acme", "Corp">>,
    <<"January", "2019", DASH, "Present">>,
    <<"2010", DASH, "2012">>,
    <<>> }

\* "Jane Smith\nAcme Corp\nSenior Engineer\nJanuary 2019 - Present\nBuilt systems.\n\n
\*  Beta Inc\nAnalyst\nJune 2015 - December 2018\nAnalyzed data."
JaneSmithLines ==
  << <<"Jane", "Smith">>, <<"Acme", "Corp">>, <<"Senior", "Engineer">>,
     <<"January", "2019", DASH, "Present">>, <<"Built", "systems", DOT>>, <<>>,
     <<"Beta", "Inc">>, <<"Analyst">>,
     <<"June", "2015", DASH, "December", "2018">>, <<"Analyzed", "data", DOT>> >>

JaneSmithText == JoinLines(JaneSmithLines)

\* the same lines under an experience header
HeadedJaneSmithText == JoinLines(<< <<"Experience">> >> \o JaneSmithLines)

\* "Master of Science in Computing, Tech University, 2015-2017"
MasterParagraph ==
  <<"Master", "of", "Science", "in", "Computing", COMMA, "Tech", "University",
    COMMA, "2015", DASH, "2017">>

\* " wrote Python and python"
PythonLine == <<SP, "wrote", "Python", "and", "python">>

\* the paragraph under an education header
HeadedMasterLines == << <<"Education", COLON>>, MasterParagraph >>

\* "Experience\nJanuary 2019 - Present\nSkills\n2010 - 2012"
SkillsAfterExperienceLines ==
  << <<"Experience">>, <<"January", "2019", DASH, "Present">>, <<"Skills">>,
     <<"2010", DASH, "2012">> >>

\* "Experience\nBuilt systems.\nAcme Corp\nJanuary 2019 - Present\nENGINEER"
KeywordCaseLines ==
  << <<"Experience">>, <<"Built", "systems", DOT>>, <<"Acme", "Corp">>,
     <<"January", "2019", DASH, "Present">>, <<"ENGINEER">> >>

\* "Experience\nUnknown\nJanuary 2019 - Present"
UnknownCompanyLines ==
  << <<"Experience">>, <<"Unknown">>, <<"January", "2019", DASH, "Present">> >>

\* "Experience\n2010 - 2012\nJune 1998 - December 1998\nJanuary 2019 - Present\nAcme Corp"
TwoCenturiesLines ==
  << <<"Experience">>, <<"2010", DASH, "2012">>,
     <<"June", "1998", DASH, "December", "1998">>,
     <<"January", "2019", DASH, "Present">>, <<"Acme", "Corp">> >>

ExampleLines ==
  { HeadedMasterLines, SkillsAfterExperienceLines, KeywordCaseLines,
    UnknownCompanyLines, TwoCenturiesLines }

NoCall == [op |-> "none"]

Init ==
  /\ \/ text = <<>> /\ nlines = 0
     \/ text = JaneSmithText /\ nlines = Len(JaneSmithLines)
     \/ text = HeadedJaneSmithText /\ nlines = Len(JaneSmithLines) + 1
     \/ text = MasterParagraph /\ nlines = 1
     \/ text = PythonLine /\ nlines = 1
     \/ \E lines \in ExampleLines : text = JoinLines(lines) /\ nlines = Len(lines)
  /\ call = NoCall

\* the caller extends the text by one line
AppendLine(line) ==
  /\ call = NoCall
  /\ nlines < MaxLines
  /\ text' = IF nlines = 0 THEN line ELSE text \o <<NL>> \o line
  /\ nlines' = nlines + 1
  /\ call' = NoCall

CallIdentifySections ==
  /\ call = NoCall
  /\ nlines > 0
  /\ call' = [op |-> "identify_sections", ret |-> identify_sections(text)]
  /\ UNCHANGED <<text, nlines>>

CallExtractWorkExperiences ==
  /\ call = NoCall
  /\ nlines > 0
  /\ call' = [op |-> "extract_work_experiences_v2", ret |-> extract_work_experiences_v2(text)]
  /\ UNCHANGED <<text, nlines>>

CallExtractSkills ==
  /\ call = NoCall
  /\ nlines > 0
  /\ call' = [op |-> "extract_skills", ret |-> extract_skills(text)]
  /\ UNCHANGED <<text, nlines>>

CallExtractEducation ==
  /\ call = NoCall
  /\ nlines > 0
  /\ call' = [op |-> "extract_education", ret |-> extract_education(text)]
  /\ UNCHANGED <<text, nlines>>

\* the caller has taken the result
Return ==
  /\ call # NoCall
  /\ call' = NoCall
  /\ UNCHANGED <<text, nlines>>

Next ==
  \/ \E line \in LineVocabulary : AppendLine(line)
  \/ CallIdentifySections
  \/ CallExtractWorkExperiences
  \/ CallExtractSkills
  \/ CallExtractEducation
  \/ Return

Spec == Init /\ [][Next]_vars

----------------------------------------------------------------------------
(* The documents: the text of a PDF built line by line from lines with     *)
(* contact data, and what the two libraries make of it                     *)

MaxDocumentLines == 2

DocumentVocabulary ==
  { <<"Experience">>,
    <<"January", "2019", DASH, "Present">>,
    <<"john.doe@example.com">>,
    <<"https://janesmith.dev">>,
    <<"https://www.github.com/jane">>,
    <<"https://es.linkedin.com/in/jane">> }

\* "Jane Smith\nAustin, TX\njohn.doe@example.com\n555-123-4567\n
\*  https://linkedin.com/in/jane\nhttps://janesmith.dev"
ContactLines ==
  << <<"Jane", "Smith">>, <<"Austin", COMMA, "TX">>, <<"john.doe@example.com">>,
     <<"555-123-4567">>, <<"https://linkedin.com/in/jane">>,
     <<"https://janesmith.dev">> >>

ContactText == JoinLines(ContactLines)

InitPdf ==
  /\ \/ text = <<>> /\ nlines = 0
     \/ text = ContactText /\ nlines = Len(ContactLines)
     \/ text = HeadedJaneSmithText /\ nlines = Len(JaneSmithLines) + 1
     \/ text = JoinLines(HeadedMasterLines) /\ nlines = Len(HeadedMasterLines)
  /\ call = NoCall

\* the document grows by one line
AppendDocumentLine(line) ==
  /\ call = NoCall
  /\ nlines < MaxDocumentLines
  /\ text' = IF nlines = 0 THEN line ELSE text \o <<NL>> \o line
  /\ nlines' = nlines + 1
  /\ call' = NoCall

\* what PdfReader and page.extract_text() do on the document: PdfReader
\* raises; no page; one page with the text; a page that raises, the page
\* with the text and a blank page
PypdfOutcomes(t) ==
  { [raises |-> TRUE, pages |-> <<>>],
    [raises |-> FALSE, pages |-> <<>>],
    [raises |-> FALSE, pages |-> <<[raises |-> FALSE, text |-> t]>>],
    [raises |-> FALSE,
     pages |-> << [raises |-> TRUE, text |-> <<>>], [raises |-> FALSE, text |-> t],
                  [raises |-> FALSE, text |-> <<NL>>] >>] }

\* what pdfminer's extract_text does on it: not installed; raises; no text;
\* the text; the text and a newline; the first word only
PdfminerOutcomes(t) ==
  { [available |-> FALSE, raises |-> FALSE, text |-> <<>>],
    [available |-> TRUE, raises |-> TRUE, text |-> <<>>] }
  \cup { [available |-> TRUE, raises |-> FALSE, text |-> x] :
           x \in {<<>>, t, t \o <<NL>>, Slice(t, 0, 1)} }

Sources == {"missing", "unreadable", "file", "data"}

CallExtractWebsite ==
  /\ call = NoCall
  /\ nlines > 0
  /\ call' = [op |-> "extract_website", ret |-> extract_website(text)]
  /\ UNCHANGED <<text, nlines>>

CallExtractStructuredInfo(stdout) ==
  /\ call = NoCall
  /\ nlines > 0
  /\ call' = [op |-> "extract_structured_info", stdout |-> stdout,
              ret |-> extract_structured_info(text, stdout)]
  /\ UNCHANGED <<text, nlines>>

CallExtractFromPdf(source, pypdf, pdfminer, stdout) ==
  /\ call = NoCall
  /\ call' = [op |-> "extract_from_pdf", source |-> source, pypdf |-> pypdf,
              pdfminer |-> pdfminer, stdout |-> stdout,
              ret |-> extract_from_pdf(source, pypdf, pdfminer, stdout)]
  /\ UNCHANGED <<text, nlines>>

NextPdf ==
  \/ \E line \in DocumentVocabulary : AppendDocumentLine(line)
  \/ CallExtractWebsite
  \/ \E stdout \in {NoPrint, FoundSectionPrint} : CallExtractStructuredInfo(stdout)
  \/ \E source \in Sources, pypdf \in PypdfOutcomes(text),
        pdfminer \in PdfminerOutcomes(text),
        stdout \in {NoPrint, StartingPrint, SelectedPrint, FoundSectionPrint} :
       CallExtractFromPdf(source, pypdf, pdfminer, stdout)
  \/ Return

SpecPdf == InitPdf /\ [][NextPdf]_vars

----------------------------------------------------------------------------
(* The /extract handler of server/python_pdf_service/pdf_extract.py: the    *)
(* uploaded document is saved to a temporary file and read by PyMuPDF, then *)
(* by pdfminer when PyMuPDF gave little text                                *)

\* len(text.strip()) below which pdfminer is tried, and below which the
\* request fails
MinimalTextLength == 100
NoTextLength == 10

\* filename.lower().endswith('.pdf')
IsPdfName == ("cv.pdf" :> TRUE) @@ ("CV.PDF" :> TRUE) @@ ("cv.txt" :> FALSE)

\* the requests: without a file, with a file of each name, and with a file
\* whose save raises
Requests ==
  { [has_file |-> FALSE, filename |-> "cv.pdf", save_raises |-> FALSE] }
  \cup { [has_file |-> TRUE, filename |-> n, save_raises |-> FALSE] : n \in DOMAIN IsPdfName }
  \cup { [has_file |-> TRUE, filename |-> "cv.pdf", save_raises |-> TRUE] }

\* what fitz.open and page.get_text() do on the document: open raises; no
\* page; one page with the text; the page with the text and a page that
\* raises; the page with the text and an empty page
FitzOutcomes(t) ==
  { [raises |-> TRUE, pages |-> <<>>],
    [raises |-> FALSE, pages |-> <<>>],
    [raises |-> FALSE, pages |-> <<[raises |-> FALSE, text |-> t]>>],
    [raises |-> FALSE,
     pages |-> <<[raises |-> FALSE, text |-> t], [raises |-> TRUE, text |-> <<>>]>>],
    [raises |-> FALSE,
     pages |-> <<[raises |-> FALSE, text |-> t], [raises |-> FALSE, text |-> <<>>]>>] }

\* text += page_text + "\n\n" over the pages
RECURSIVE PagesText(_)
PagesText(pages) ==
  IF pages = <<>> THEN <<>>
  ELSE Head(pages).text \o <<NL, NL>> \o PagesText(Tail(pages))

\* text after the PyMuPDF block: "" when anything in it raised
FitzText(fitz) ==
  IF fitz.raises \/ \E i \in 1..Len(fitz.pages) : fitz.pages[i].raises
  THEN <<>>
  ELSE PagesText(fitz.pages)

\* what a request ends with: the response and where the temporary file is
\* ("not created", "removed", "on disk")
Responded(status, body, temp_file) ==
  [status |-> status, body |-> body, temp_file |-> temp_file]

\* lines 76 to 82: os.unlink(temp_path), then the response
CleanUpAndRespond(t) ==
  IF t = <<>> \/ CharLen(Strip(t)) < NoTextLength
  THEN Responded(500, [error |-> "No text could be extracted from the PDF"], "removed")
  ELSE Responded(200, [text |-> t], "removed")

\* lines 63 to 82, on the text of the PyMuPDF block
AfterPyMuPDF(t, pdfminer) ==
  IF CharLen(Strip(t)) < MinimalTextLength /\ pdfminer.available
  THEN IF pdfminer.raises
       THEN IF t = <<>>
            THEN Responded(500, [error |-> "Failed to extract text with both engines"],
                           "on disk")
            ELSE CleanUpAndRespond(t)
       ELSE CleanUpAndRespond(pdfminer.text)
  ELSE CleanUpAndRespond(t)

extract_pdf_text(request, fitz, pdfminer) ==
  IF ~request.has_file
  THEN Responded(400, [error |-> "No file provided"], "not created")
  ELSE IF ~IsPdfName[request.filename]
  THEN Responded(400, [error |-> "File must be a PDF"], "not created")
  ELSE IF request.save_raises
  THEN Responded(500, [error |-> "str(e)"], "removed")
  ELSE AfterPyMuPDF(FitzText(fitz), pdfminer)

\* one request to /extract, handled to its response
HandleExtract(request, fitz, pdfminer) ==
  /\ call = NoCall
  /\ call' = [op |-> "extract_pdf_text", request |-> request, fitz |-> fitz,
              pdfminer |-> pdfminer,
              ret |-> extract_pdf_text(request, fitz, pdfminer)]
  /\ UNCHANGED <<text, nlines>>

NextService ==
  \/ \E line \in DocumentVocabulary : AppendDocumentLine(line)
  \/ \E request \in Requests, fitz \in FitzOutcomes(text),
        pdfminer \in PdfminerOutcomes(text) :
       HandleExtract(request, fitz, pdfminer)
  \/ Return

SpecService == InitPdf /\ [][NextService]_vars

----------------------------------------------------------------------------
(* The claims *)

Called(op) == call.op = op

\* the greatest 19xx/20xx year written in a date, 0 when there is none
MaxYear(date) ==
  LET ys == {YearValue[date[i]] : i \in {k \in 1..Len(date) : IsYear(date[k])}}
  IN IF ys = {} THEN 0 ELSE CHOOSE y \in ys : \A z \in ys : z <= y

\* C1: the list returned by extract_work_experiences_v2 is ordered by
\* descending greatest year of the entries' dates (an entry without a year
\* counting as year 0).
C1_SortedByMaxYear ==
  Called("extract_work_experiences_v2") =>
    \A i, j \in 1..Len(call.ret) :
      i < j => MaxYear(call.ret[i].date) >= MaxYear(call.ret[j].date)

\* what the example of C2 asks of a result
TwoJaneSmithEntries(ret) ==
  /\ Len(ret) = 2
  /\ ret[1].date = <<"January", "2019", DASH, "Present">>
  /\ ret[2].date = <<"June", "2015", DASH, "December", "2018">>
  /\ ret[1].title # Unknown
  /\ ret[2].title # Unknown

\* C2 as claimed: on the ten lines of the example, which hold no experience
\* header, the extractor returns the two entries of the example.
C2_ExampleYieldsTwoEntries ==
  (Called("extract_work_experiences_v2") /\ text = JaneSmithText) =>
    TwoJaneSmithEntries(call.ret)

\* C2 as amended: on the ten lines of the example the extractor returns the
\* empty list, since no experience section is located; on the same lines
\* under an "Experience" header line it returns the two entries of the
\* example, the 2019 one first, neither title "Unknown".
C2_ExampleNeedsHeader ==
  Called("extract_work_experiences_v2") =>
    /\ text = JaneSmithText => call.ret = <<>>
    /\ text = HeadedJaneSmithText => TwoJaneSmithEntries(call.ret)

C2_Witness ==
  /\ Called("extract_work_experiences_v2")
  /\ text = HeadedJaneSmithText
  /\ Len(call.ret) = 2

\* no line of the text matches a date pattern
NoDateLine(t) ==
  LET lines == SplitLines(t)
  IN \A i \in 1..Len(lines) : FirstDateMatch(lines[i], 1) = <<>>

\* C3: on a text none of whose lines matches a date pattern,
\* extract_work_experiences_v2 returns the empty list, wherever the
\* experience section was found.
C3_NoDateNoEntry ==
  (Called("extract_work_experiences_v2") /\ NoDateLine(text)) => call.ret = <<>>

\* a text without date lines whose experience section, not empty, came from
\* the segmenter after the direct search had failed
C3_Witness ==
  /\ Called("extract_work_experiences_v2")
  /\ NoDateLine(text)
  /\ DirectExperienceSection(text) = <<>>
  /\ ExperienceSection(text).found
  /\ ExperienceSection(text).section # <<>>

\* the kinds of the boundaries sp and the boundaries of one kind
BoundaryKinds(sp) == {sp[i][2] : i \in 1..Len(sp)}
BoundariesOf(sp, kind) == {i \in 1..Len(sp) : sp[i][2] = kind}

\* headers of two kinds match at different offsets
TwoKindsApart(sp) ==
  \E i, j \in 1..Len(sp) : sp[i][2] # sp[j][2] /\ sp[i][1] # sp[j][1]

SomeKindTwice(sp) == \E k \in BoundaryKinds(sp) : Cardinality(BoundariesOf(sp, k)) > 1

\* the slices of the items do not overlap
NoOverlap(ret) ==
  \A i, j \in 1..Len(ret) :
    i # j => (ret[i].stop <= ret[j].start \/ ret[j].stop <= ret[i].start)

\* offset p lies in the slice of an item
Covered(ret, p) == \E i \in 1..Len(ret) : ret[i].start <= p /\ p < ret[i].stop

\* C4 as claimed: when headers of two kinds match at different offsets, the
\* bodies are slices that do not overlap and that cover the text from the
\* first boundary to its end, also when a kind matches more than once.
C4_BodiesPartition ==
  LET sp == section_positions(text)
  IN (Called("identify_sections") /\ TwoKindsApart(sp)) =>
       /\ NoOverlap(call.ret)
       /\ \A p \in sp[1][1]..(Len(text) - 1) : Covered(call.ret, p)

\* the boundary in whose slice offset p lies
BoundaryAt(sp, p) ==
  CHOOSE i \in 1..Len(sp) : sp[i][1] <= p /\ (i < Len(sp) => p < sp[i + 1][1])

LastOfItsKind(sp, i) == \A j \in BoundariesOf(sp, sp[i][2]) : j <= i

\* C4 as amended: when headers of two kinds match at different offsets, the
\* bodies are slices of the text that do not overlap; an offset between the
\* first boundary and the end of the text is covered exactly when the
\* boundary that opens its slice is the last one of its kind, so the bodies
\* cover the whole stretch when no kind matches more than once, and leave
\* out the slice of every earlier boundary of a kind that matches again.
C4_BodiesPartitionUnlessRepeated ==
  LET sp == section_positions(text)
  IN (Called("identify_sections") /\ TwoKindsApart(sp)) =>
       /\ NoOverlap(call.ret)
       /\ \A i \in 1..Len(call.ret) :
            call.ret[i].body = Strip(Slice(text, call.ret[i].start, call.ret[i].stop))
       /\ \A p \in sp[1][1]..(Len(text) - 1) :
            Covered(call.ret, p) <=> LastOfItsKind(sp, BoundaryAt(sp, p))

\* two kinds, none of them twice, and text after the first boundary
C4_Witness ==
  LET sp == section_positions(text)
  IN /\ Called("identify_sections")
     /\ TwoKindsApart(sp)
     /\ ~SomeKindTwice(sp)
     /\ Len(call.ret) >= 2
     /\ sp[1][1] < Len(text)
     /\ \A p \in sp[1][1]..(Len(text) - 1) : Covered(call.ret, p)

\* C5: the items of the mapping are in strictly ascending order of the start
\* of their bodies, and the body of the last item runs to the end of the text.
C5_OrderedByStart ==
  (Called("identify_sections") /\ call.ret # <<>>) =>
    /\ \A i, j \in 1..Len(call.ret) : i < j => call.ret[i].start < call.ret[j].start
    /\ call.ret[Len(call.ret)].stop = Len(text)

\* the last boundary of a kind
LastBoundaryOf(sp, kind) ==
  CHOOSE b \in BoundariesOf(sp, kind) : \A c \in BoundariesOf(sp, kind) : c <= b

\* text[start:stop].strip() of boundary b
BoundarySlice(t, sp, b) ==
  Strip(Slice(t, sp[b][1], IF b < Len(sp) THEN sp[b + 1][1] ELSE Len(t)))

\* C6: the body stored for a kind is the slice that starts at the boundary of
\* that kind with the greatest offset; every kind with a boundary has one
\* item, and the slices of its earlier boundaries are in no item.
C6_LastWriteWins ==
  LET sp == section_positions(text)
  IN Called("identify_sections") =>
       /\ {call.ret[i].key : i \in 1..Len(call.ret)} = BoundaryKinds(sp)
       /\ \A i, j \in 1..Len(call.ret) : call.ret[i].key = call.ret[j].key => i = j
       /\ \A i \in 1..Len(call.ret) :
            /\ call.ret[i].start = sp[LastBoundaryOf(sp, call.ret[i].key)][1]
            /\ call.ret[i].body =
                 BoundarySlice(text, sp, LastBoundaryOf(sp, call.ret[i].key))

\* a kind with two boundaries whose slices differ
C6_Witness ==
  LET sp == section_positions(text)
  IN /\ Called("identify_sections")
     /\ \E k \in BoundaryKinds(sp) :
          \E b \in BoundariesOf(sp, k) :
            /\ b < LastBoundaryOf(sp, k)
            /\ BoundarySlice(text, sp, b) # BoundarySlice(text, sp, LastBoundaryOf(sp, k))
            /\ Lookup(call.ret, k).body # BoundarySlice(text, sp, b)

\* a skill without its letter case
LowerWords(x) == [i \in 1..Len(x) |-> Lower(x[i])]

\* C8: the skills returned hold one entry for a skill written in two letter
\* cases.
C8_SkillsOncePerCase ==
  Called("extract_skills") =>
    \A x, y \in call.ret : LowerWords(x) = LowerWords(y) => x = y

\* C9: extract_education of the paragraph of the example returns one entry,
\* its degree holding "Master", its institution "Tech University", its date
\* "2015-2017".
C9_MasterParagraph ==
  (Called("extract_education") /\ text = MasterParagraph) =>
    /\ Len(call.ret) = 1
    /\ Contains(call.ret[1].degree, <<"Master">>)
    /\ Contains(call.ret[1].institution, <<"Tech", "University">>)
    /\ call.ret[1].date = <<"2015", DASH, "2017">>

\* the lines of the experience section
ExperienceLines(t) == SplitLines(ExperienceSection(t).section)

\* the number of lines of the experience section that match a date pattern
DateLineCount(t) ==
  IF ExperienceSection(t).found
  THEN Cardinality({i \in 1..Len(ExperienceLines(t)) :
                      FirstDateMatch(ExperienceLines(t)[i], 1) # <<>>})
  ELSE 0

\* C10: extract_work_experiences_v2 returns one entry for every line of the
\* experience section that matches a date pattern, and the company and the
\* title of every entry are a line of the text that is not empty, or
\* "Unknown".
C10_OneShapedEntryPerDateLine ==
  Called("extract_work_experiences_v2") =>
    /\ Len(call.ret) = DateLineCount(text)
    /\ \A i \in 1..Len(call.ret) :
         /\ DOMAIN call.ret[i] = {"company", "title", "date", "description"}
         /\ call.ret[i].company # <<>>
         /\ call.ret[i].title # <<>>

\* C11: when a sub-extractor called by extract_structured_info raises (here
\* extract_work_experiences_v2, at its print while the standard output is
\* gone), the call still returns a record: the field of that sub-extractor at
\* its default, the empty list, every other field as its own extractor gives it.
C11_FailSoft ==
  /\ Called("extract_structured_info")
  /\ call.stdout = FoundSectionPrint
  /\ ExperienceSection(text).found
  => /\ ~call.ret.raised
     /\ call.ret.value = StructuredData(text, identify_sections(text), <<>>)

\* the response has the key 'error'
HasError(ret) == "error" \in DOMAIN ret

\* C12: whatever path extract_from_pdf returns by, its result has the key
\* 'error' exactly when full_text is the empty string, and with 'error'
\* sections and structured_data are empty mappings.
C12_ErrorIffNoText ==
  Called("extract_from_pdf") =>
    /\ HasError(call.ret) <=> call.ret.full_text = <<>>
    /\ HasError(call.ret) =>
         call.ret.sections = EmptyDict /\ call.ret.structured_data = EmptyDict

\* a call in which PyPDF gave text and an exception after the selection was
\* turned into the error response
C12_Witness ==
  /\ Called("extract_from_pdf")
  /\ call.source = "file"
  /\ call.stdout = FoundSectionPrint
  /\ PypdfResult(call.pypdf).length > 0
  /\ HasError(call.ret)
  /\ call.ret.error = "Extraction failed"
  /\ call.ret.full_text = <<>>

\* the methods were attempted, and what they yielded
Attempted == call.source \in {"file", "data"} /\ call.stdout # StartingPrint
Yielded == valid_extractions(ExtractionResults(call.pypdf, call.pdfminer))

\* full_text is the text of a method, and no method yielded a longer one
IsLongest(full_text, yielded) ==
  /\ \E i \in 1..Len(yielded) : yielded[i].text = full_text
  /\ \A i \in 1..Len(yielded) : yielded[i].length <= CharLen(full_text)

AllMethodsFailed(ret) ==
  HasError(ret) /\ ret.error = "All extraction methods failed"

HostOfPlatform(host) ==
  \E i \in 1..(Len(host) - 1) : host[i] \in excluded_platforms /\ host[i + 1] = "com"

UrlsOf(t) == {t[i] : i \in {k \in 1..Len(t) : t[k] \in DOMAIN UrlHost}}

\* C14: extract_website returns no URL whose host holds a linkedin, github,
\* facebook, twitter or instagram domain, bare, behind "www." or behind another
\* subdomain; a text whose URLs are all of this kind gives no website.
C14_NoPlatformUrl ==
  Called("extract_website") =>
    /\ call.ret # None => ~HostOfPlatform(UrlHost[call.ret[1]])
    /\ (\A u \in UrlsOf(text) : HostOfPlatform(UrlHost[u])) => call.ret = None

\* the first header of a kind other than experience that follows the
\* experience header whose match ends at offset from: the offsets where such
\* headers start
FollowingHeaderStarts(t, from) ==
  { HeaderSearch(t, from - 1, section_patterns[KindOrder[k]],
                 IF KindOrder[k] \in ExtraWordKinds THEN 3 ELSE 0)[1] :
      k \in { i \in 1..Len(KindOrder) :
                /\ KindOrder[i] # "experience"
                /\ HeaderSearch(t, from - 1, section_patterns[KindOrder[i]],
                                IF KindOrder[i] \in ExtraWordKinds THEN 3 ELSE 0) # <<>> } }

\* the text from the experience header experience_match to the next header
\* of another kind, or to the end of the text
SectionToNextHeader(t, experience_match) ==
  LET starts == FollowingHeaderStarts(t, experience_match[2])
  IN Strip(Slice(t, experience_match[2], IF starts = {} THEN Len(t) ELSE MinOf(starts)))

\* C15: on a text with an experience header, the entries returned by
\* extract_work_experiences_v2 are those of the section that runs from
\* just after that header to the next header of another kind that follows
\* it, or to the end of the text: a date line after such a header gives no
\* entry, and an education header before the experience header takes nothing
\* from the section.
C15_SectionToNextHeader ==
  Called("extract_work_experiences_v2")
  /\ HeaderSearch(text, 0, experience_pattern, 0) # <<>>
  => call.ret =
       WorkExperiencesIn([found |-> TRUE,
                          section |-> SectionToNextHeader(
                                        text, HeaderSearch(text, 0, experience_pattern, 0))])

\* the lines of the entry of the j-th date line, lines[start_idx:end_idx]
JobLinesOf(lines, dps, j) ==
  Slice(lines, dps[j][1], IF j < Len(dps) THEN dps[j + 1][1] ELSE Len(lines))

\* the entry is one of those returned
IsReturned(e) == \E i \in 1..Len(call.ret) : call.ret[i] = e

\* the entry e of the j-th date line has a title other than 'Unknown', unless
\* it has no candidate (or a candidate that reads "Unknown"); when its date
\* line is the first line of the section, the title is the first line of
\* its range that is neither the date line nor the company
TitledFromCandidates(lines, dps, j, e) ==
  LET job_lines == JobLinesOf(lines, dps, j)
      candidates == TitleCandidates(lines, dps[j][1], job_lines, e.company, e.date)
      other == FirstOtherLine(job_lines, e.company, e.date)
  IN /\ e.title = Unknown =>
          candidates = <<>> \/ \E k \in 1..Len(candidates) : candidates[k] = Unknown
     /\ dps[j][1] = 0 /\ other # <<>> => e.title = other[1]

\* C16: the title of an entry is 'Unknown' only if the entry has no title
\* candidate: no usable line above the date line and no line in the entry's
\* range besides the date line and the company; an entry whose date line is
\* the first line of the section and whose range has such a line has that
\* line as its title.
C16_UnknownOnlyWithoutCandidates ==
  Called("extract_work_experiences_v2") /\ ExperienceSection(text).found =>
    \A j \in 1..Len(date_positions(ExperienceLines(text))) :
      /\ IsReturned(JobEntry(ExperienceLines(text), date_positions(ExperienceLines(text)), j))
      /\ TitledFromCandidates(
           ExperienceLines(text), date_positions(ExperienceLines(text)), j,
           JobEntry(ExperienceLines(text), date_positions(ExperienceLines(text)), j))

\* title_keywords without letter case
title_keywords_lower ==
  { "director", "cio", "chief", "manager", "lead", "engineer", "developer",
    "architect", "analyst", "consultant", "specialist", "asesor", "jefe",
    "gerente", "ingeniero" }

HasTitleKeywordAnyCase(candidate) ==
  \E i \in 1..Len(candidate) : Lower(candidate[i]) \in title_keywords_lower

\* the first candidate with a keyword in any letter case, else the first
RECURSIVE PreferredCandidate(_, _)
PreferredCandidate(cands, first) ==
  IF cands = <<>> THEN first
  ELSE IF HasTitleKeywordAnyCase(Head(cands)) THEN Head(cands)
  ELSE PreferredCandidate(Tail(cands), first)

\* the entry e of the j-th date line, a date line with a line above it, has
\* the preferred one of its candidates as title
TitledByKeyword(lines, dps, j, e) ==
  LET candidates == TitleCandidates(lines, dps[j][1], JobLinesOf(lines, dps, j),
                                    e.company, e.date)
  IN dps[j][1] > 0 /\ candidates # <<>> =>
       e.title = PreferredCandidate(candidates, candidates[1])

\* C17: the title of an entry is the first of its candidates that holds a
\* job-title keyword in whatever letter case, also when a candidate before it
\* holds none, and the first candidate only when no candidate holds a keyword.
C17_KeywordInAnyCase ==
  Called("extract_work_experiences_v2") /\ ExperienceSection(text).found =>
    \A j \in 1..Len(date_positions(ExperienceLines(text))) :
      /\ IsReturned(JobEntry(ExperienceLines(text), date_positions(ExperienceLines(text)), j))
      /\ TitledByKeyword(
           ExperienceLines(text), date_positions(ExperienceLines(text)), j,
           JobEntry(ExperienceLines(text), date_positions(ExperienceLines(text)), j))

\* C18: the description of every entry returned by
\* extract_work_experiences_v2 holds the date text of the entry: the date
\* line of the entry is never among the lines left out.
C18_DescriptionHoldsDate ==
  Called("extract_work_experiences_v2") =>
    \A i \in 1..Len(call.ret) : Contains(call.ret[i].description, call.ret[i].date)

\* the company by the precedence of the claim: the line above the date line
\* if it is not empty and starts with an upper-case letter; else the first of
\* the first two lines of the range that is not empty, starts with an
\* upper-case letter and has at most 5 words; else 'Unknown'
RECURSIVE FirstShortCapitalized(_)
FirstShortCapitalized(ls) ==
  IF ls = <<>> THEN <<"Unknown">>
  ELSE IF StartsUpper(Strip(Head(ls))) /\ WordCount(Strip(Head(ls))) <= 5
       THEN Strip(Head(ls))
       ELSE FirstShortCapitalized(Tail(ls))

CompanyByPrecedence(lines, start_idx, job_lines) ==
  IF start_idx > 0 /\ StartsUpper(Strip(lines[start_idx]))
  THEN Strip(lines[start_idx])
  ELSE FirstShortCapitalized(Slice(job_lines, 0, 2))

\* C19: the company of every entry is the line just above its date line when
\* that line is not empty and starts with an upper-case letter; otherwise the
\* first of the first two lines of its range that is not empty, starts with an
\* upper-case letter and has at most 5 words; otherwise 'Unknown'.
C19_CompanyPrecedence ==
  Called("extract_work_experiences_v2") /\ ExperienceSection(text).found =>
    \A j \in 1..Len(date_positions(ExperienceLines(text))) :
      /\ IsReturned(JobEntry(ExperienceLines(text), date_positions(ExperienceLines(text)), j))
      /\ JobEntry(ExperienceLines(text), date_positions(ExperienceLines(text)), j).company
           = CompanyByPrecedence(
               ExperienceLines(text),
               date_positions(ExperienceLines(text))[j][1],
               JobLinesOf(ExperienceLines(text), date_positions(ExperienceLines(text)), j))

\* the offset of the end of the range of years that starts with the word at
\* offset p of t, or -1
YearRangeEnd(t, p) ==
  LET sep == IF IsYear(t[p + 1]) THEN EducationSeparatorEnd(t, SkipWS(t, p + 1)) ELSE -1
      q == IF sep = -1 THEN -1 ELSE SkipWS(t, sep)
  IN IF q # -1 /\ q < Len(t) /\ (IsYear(t[q + 1]) \/ t[q + 1] \in education_now)
     THEN q ELSE -1

\* the ranges of years of t, each as its start year in full, "-" and its end
FullYearRanges(t) ==
  { <<t[p + 1], DASH, t[YearRangeEnd(t, p) + 1]>> :
      p \in {o \in 0..(Len(t) - 1) : YearRangeEnd(t, o) # -1} }

\* C20: the date of every entry that extract_education returns, unless it is
\* 'Unknown Date', is the start year in full (four digits), a hyphen and the
\* end of a range of years of the text.
C20_FullStartYear ==
  Called("extract_education") =>
    \A i \in 1..Len(call.ret) :
      call.ret[i].date # UnknownDate => call.ret[i].date \in FullYearRanges(text)

\* C21: the education field of the record of extract_structured_info is what
\* the paragraph-by-paragraph parsing gives on the body of the education
\* section when the segmenter finds one, and on the full text otherwise: one
\* entry, in the order of the document, for every paragraph with a degree
\* keyword or an institution name.
C21_EducationFromSection ==
  Called("extract_structured_info") /\ ~call.ret.raised =>
    call.ret.value.education
      = EducationIn(DictGet(call.ret.value.sections, "education", text))

\* C22: a request to /extract that created the temporary file leaves no
\* temporary file on disk when its response is returned, whichever engines
\* succeeded or failed and whichever response it is.
C22_TempFileRemoved ==
  Called("extract_pdf_text") /\ call.ret.temp_file # "not created" =>
    call.ret.temp_file = "removed"

\* the entries of the date lines of the experience section, in the order of
\* the lines
EntriesInDocumentOrder(lines, dps) == [j \in 1..Len(dps) |-> JobEntry(lines, dps, j)]

\* the entries of es whose sort key is key, in the order of es
OfKey(es, key) ==
  LET HasThisKey(e) == extract_year(e.date) = key
  IN SelectSeq(es, HasThisKey)

\* C23: the entries that extract_work_experiences_v2 returns with one and
\* the same sort key stand in the order in which their date lines stand in
\* the experience section.
C23_StableOrder ==
  Called("extract_work_experiences_v2") /\ ExperienceSection(text).found =>
    LET lines == ExperienceLines(text)
        in_order == EntriesInDocumentOrder(lines, date_positions(lines))
    IN \A i \in 1..Len(call.ret) :
         OfKey(call.ret, extract_year(call.ret[i].date))
           = OfKey(in_order, extract_year(call.ret[i].date))

\* three entries are returned: two different ones of one key, and after them
\* one of a smaller key whose date line stands between theirs
C23_Witness ==
  /\ Called("extract_work_experiences_v2")
  /\ text = JoinLines(TwoCenturiesLines)
  /\ Len(call.ret) = 3
  /\ extract_year(call.ret[1].date) = extract_year(call.ret[2].date)
  /\ call.ret[1] # call.ret[2]
  /\ extract_year(call.ret[3].date) < extract_year(call.ret[2].date)
  /\ call.ret[1].date = <<"2010", DASH, "2012">>
  /\ call.ret[2].date = <<"January", "2019", DASH, "Present">>
====
